---------------------------- MODULE Spec2Model ----------------------------
(***************************************************************************)
(* GradeBook Analyzer (src/gradebook.py): the menu session of main, the    *)
(* two input paths (manual_entry, load_from_csv), the sample data, and the *)
(* statistics / grading / pass-fail functions run_analysis applies.        *)
(*                                                                         *)
(* Strings are sequences of one-character strings.  A score is a Python    *)
(* float; it is held as an integer count of 1/Scale, which tells apart     *)
(* every two decimal literals of at most five fractional digits.  The      *)
(* median is held in units of 1/(2*Scale), so that the mean of the two     *)
(* middle values is exact.  None is the empty tuple and a present value v  *)
(* is <<v>>.  An OrderedDict / dict is the sequence of its (key, value)    *)
(* pairs in iteration order.                                               *)
(***************************************************************************)
EXTENDS Integers, Sequences, FiniteSets, TLC

\* float resolution of the model: scores are multiples of 1/Scale.
Scale == 100000

\* Largest number of rows of a CSV file.
MaxRows == 3

None == <<>>
Some(v) == <<v>>

---------------------------------------------------------------------------
\* str methods and float()

UpperChars == <<"A","B","C","D","E","F","G","H","I","J","K","L","M",
                "N","O","P","Q","R","S","T","U","V","W","X","Y","Z">>
LowerChars == <<"a","b","c","d","e","f","g","h","i","j","k","l","m",
                "n","o","p","q","r","s","t","u","v","w","x","y","z">>
DigitChars == <<"0","1","2","3","4","5","6","7","8","9">>

IsSpace(c) == c \in {" ", "\t"}
IsDigit(c) == \E i \in 1..Len(DigitChars) : DigitChars[i] = c
DigitVal(c) == (CHOOSE i \in 1..Len(DigitChars) : DigitChars[i] = c) - 1

\* str.lower()
lower(s) ==
    [i \in 1..Len(s) |->
        IF \E k \in 1..Len(UpperChars) : UpperChars[k] = s[i]
        THEN LowerChars[CHOOSE k \in 1..Len(UpperChars) : UpperChars[k] = s[i]]
        ELSE s[i]]

\* str.strip(): drop the leading and the trailing whitespace.
strip(s) ==
    LET nonsp == {i \in 1..Len(s) : ~IsSpace(s[i])}
    IN  IF nonsp = {} THEN <<>>
        ELSE LET lo == CHOOSE i \in nonsp : \A j \in nonsp : i <= j
                 hi == CHOOSE i \in nonsp : \A j \in nonsp : i >= j
             IN  SubSeq(s, lo, hi)

RECURSIVE DigitsVal(_)
DigitsVal(ds) ==
    IF ds = <<>> THEN 0
    ELSE 10 * DigitsVal(SubSeq(ds, 1, Len(ds) - 1)) + DigitVal(ds[Len(ds)])

\* The fractional digits ds, in units of 1/Scale: the first digit counts
\* unit/10, the next unit/100, ...; digits finer than 1/Scale are dropped.
RECURSIVE FracVal(_, _)
FracVal(ds, unit) ==
    IF ds = <<>> \/ unit < 10 THEN 0
    ELSE DigitVal(Head(ds)) * (unit \div 10) + FracVal(Tail(ds), unit \div 10)

\* float(s) for the decimal literals [ws][+|-]digits[.digits][ws] (and
\* [+|-].digits): Some(value in 1/Scale), or None where float raises
\* ValueError.
float(s) ==
    LET t    == strip(s)
        neg  == t # <<>> /\ t[1] = "-"
        body == IF t # <<>> /\ t[1] \in {"+", "-"} THEN Tail(t) ELSE t
        dots == {i \in 1..Len(body) : body[i] = "."}
        dot  == IF dots = {} THEN Len(body) + 1
                ELSE CHOOSE i \in dots : \A j \in dots : i <= j
        ip   == SubSeq(body, 1, dot - 1)
        fp   == SubSeq(body, dot + 1, Len(body))
        mag  == DigitsVal(ip) * Scale + FracVal(fp, Scale)
    IN  IF /\ Cardinality(dots) <= 1
           /\ Len(ip) + Len(fp) >= 1
           /\ \A i \in 1..Len(ip) : IsDigit(ip[i])
           /\ \A i \in 1..Len(fp) : IsDigit(fp[i])
        THEN Some(IF neg THEN 0 - mag ELSE mag)
        ELSE None

---------------------------------------------------------------------------
\* OrderedDict

keys(d) == [i \in 1..Len(d) |-> d[i][1]]
values(d) == [i \in 1..Len(d) |-> d[i][2]]
HasKey(d, k) == \E i \in 1..Len(d) : d[i][1] = k
Get(d, k) == d[CHOOSE i \in 1..Len(d) : d[i][1] = k][2]

\* A dict whose assignment moves a rewritten key to the end.
DictSetMoveToEnd(d, k, v) ==
    Append(SelectSeq(d, LAMBDA r : r[1] # k), <<k, v>>)

\* d[k] = v: an existing key keeps its place and takes the new value, a
\* new key goes to the end.
DictSet(d, k, v) ==
    IF HasKey(d, k)
    THEN [i \in 1..Len(d) |-> IF d[i][1] = k THEN <<k, v>> ELSE d[i]]
    ELSE Append(d, <<k, v>>)

---------------------------------------------------------------------------
\* Statistics, grading, pass/fail

\* sorted(xs), ascending.
RECURSIVE sorted(_)
sorted(xs) ==
    IF xs = <<>> THEN <<>>
    ELSE LET rest == sorted(Tail(xs))
             k    == Cardinality({i \in 1..Len(rest) : rest[i] < Head(xs)})
         IN  SubSeq(rest, 1, k) \o <<Head(xs)>> \o SubSeq(rest, k + 1, Len(rest))

\* max(xs), min(xs) of a non-empty sequence, by one pass as the builtins do.
RECURSIVE max(_)
max(xs) ==
    IF Len(xs) = 1 THEN xs[1]
    ELSE LET m == max(SubSeq(xs, 1, Len(xs) - 1))
         IN  IF xs[Len(xs)] > m THEN xs[Len(xs)] ELSE m
RECURSIVE min(_)
min(xs) ==
    IF Len(xs) = 1 THEN xs[1]
    ELSE LET m == min(SubSeq(xs, 1, Len(xs) - 1))
         IN  IF xs[Len(xs)] < m THEN xs[Len(xs)] ELSE m

\* A median that takes the middle of the values as they stand, unsorted.
calculate_median_unsorted(marks_dict) ==
    IF marks_dict = <<>> THEN None
    ELSE LET xs == values(marks_dict)
             n  == Len(xs)
             i  == n \div 2
         IN  IF n % 2 = 1 THEN Some(2 * xs[i + 1])
             ELSE Some(xs[i] + xs[i + 1])

\* statistics.median, in units of 1/(2*Scale).
calculate_median(marks_dict) ==
    IF marks_dict = <<>> THEN None
    ELSE LET xs == sorted(values(marks_dict))
             n  == Len(xs)
             i  == n \div 2
         IN  IF n % 2 = 1 THEN Some(2 * xs[i + 1])
             ELSE Some(xs[i] + xs[i + 1])

\* A maximum that reports the first name only, breaking the tie.
find_max_score_first(marks_dict) ==
    IF marks_dict = <<>> THEN <<None, <<>>>>
    ELSE LET max_score == max(values(marks_dict))
         IN  <<Some(max_score),
               SubSeq(keys(SelectSeq(marks_dict, LAMBDA r : r[2] = max_score)), 1, 1)>>

find_max_score(marks_dict) ==
    IF marks_dict = <<>> THEN <<None, <<>>>>
    ELSE LET max_score == max(values(marks_dict))
         IN  <<Some(max_score),
               keys(SelectSeq(marks_dict, LAMBDA r : r[2] = max_score))>>

find_min_score(marks_dict) ==
    IF marks_dict = <<>> THEN <<None, <<>>>>
    ELSE LET min_score == min(values(marks_dict))
         IN  <<Some(min_score),
               keys(SelectSeq(marks_dict, LAMBDA r : r[2] = min_score))>>

\* The float literal n.9999 (89.9999, 79.9999, 69.9999), in units of 1/Scale.
Lit9999(n) == n * Scale + 9999 * (Scale \div 10000)

\* The if / elif chain of assign_grades for one score.
grade_of(score) ==
    IF score >= 90 * Scale THEN "A"
    ELSE IF 80 * Scale <= score /\ score <= Lit9999(89) THEN "B"
    ELSE IF 70 * Scale <= score /\ score <= Lit9999(79) THEN "C"
    ELSE IF 60 * Scale <= score /\ score <= Lit9999(69) THEN "D"
    ELSE "F"

assign_grades(marks_dict) ==
    [i \in 1..Len(marks_dict) |-> <<marks_dict[i][1], grade_of(marks_dict[i][2])>>]

\* A Counter over the distinct grades: every grade that occurs counts 1.
grade_distribution_distinct(grades_dict) ==
    LET gs == values(grades_dict)
    IN  [g \in {gs[i] : i \in 1..Len(gs)} |-> 1]

\* Counter(grades_dict.values()): a count for each value that occurs.
grade_distribution(grades_dict) ==
    LET gs == values(grades_dict)
    IN  [g \in {gs[i] : i \in 1..Len(gs)} |->
            Cardinality({i \in 1..Len(gs) : gs[i] = g})]

\* dist.get(g, 0)
DistGet(d, g) == IF g \in DOMAIN d THEN d[g] ELSE 0

\* A partition that passes only the scores above the threshold.
get_pass_fail_strict(marks_dict, threshold) ==
    <<keys(SelectSeq(marks_dict, LAMBDA r : r[2] > threshold)),
      keys(SelectSeq(marks_dict, LAMBDA r : r[2] < threshold))>>

\* A partition that returns its two lists in the other order.
get_pass_fail_swapped(marks_dict, threshold) ==
    <<keys(SelectSeq(marks_dict, LAMBDA r : r[2] < threshold)),
      keys(SelectSeq(marks_dict, LAMBDA r : r[2] >= threshold))>>

get_pass_fail(marks_dict, threshold) ==
    <<keys(SelectSeq(marks_dict, LAMBDA r : r[2] >= threshold)),
      keys(SelectSeq(marks_dict, LAMBDA r : r[2] < threshold))>>

---------------------------------------------------------------------------
\* load_from_csv, export_to_csv, create_sample_data

\* A loop that stops at the first bad row instead of skipping it.
RECURSIVE LoadRowsAbort(_, _)
LoadRowsAbort(d, rs) ==
    IF rs = <<>> THEN d
    ELSE LET r == Head(rs)
         IN  IF Len(r) < 2 THEN d
             ELSE IF strip(r[1]) = <<>> THEN d
             ELSE IF float(strip(r[2])) = None THEN d
             ELSE LoadRowsAbort(DictSet(d, strip(r[1]), float(strip(r[2]))[1]), Tail(rs))

\* The loop over rows[start_i:]: a row of fewer than two columns, of an
\* empty name or of a score float() rejects is skipped.
RECURSIVE LoadRows(_, _)
LoadRows(d, rs) ==
    IF rs = <<>> THEN d
    ELSE LET r == Head(rs)
         IN  IF Len(r) < 2 THEN LoadRows(d, Tail(rs))
             ELSE IF strip(r[1]) = <<>> THEN LoadRows(d, Tail(rs))
             ELSE IF float(strip(r[2])) = None THEN LoadRows(d, Tail(rs))
             ELSE LoadRows(DictSet(d, strip(r[1]), float(strip(r[2]))[1]), Tail(rs))

\* start_i: 1 past the first row when float(rows[0][1]) raises (IndexError
\* of a short row, ValueError of a non-number).  Rows count from 1 here.
start_i(file) ==
    IF Len(file[1]) >= 2 /\ float(file[1][2]) # None THEN 1 ELSE 2

\* open_result is what open() and list(reader) do: "ok" (the rows are
\* file), "FileNotFoundError", or "Exception" for any other error.  Both
\* except clauses print and fall through to return data.
load_from_csv(open_result, file) ==
    IF open_result = "FileNotFoundError"
    THEN [raised |-> FALSE, printed |-> "File not found", data |-> <<>>]
    ELSE IF open_result = "Exception"
    THEN [raised |-> FALSE, printed |-> "Error reading CSV", data |-> <<>>]
    ELSE IF file = <<>>
    THEN [raised |-> FALSE, printed |-> "CSV is empty", data |-> <<>>]
    ELSE [raised |-> FALSE, printed |-> "",
          data |-> LoadRows(<<>>, SubSeq(file, start_i(file), Len(file)))]

ResultsCsv == <<"r","e","s","u","l","t","s",".","c","s","v">>

\* An export without its try / except: the error goes up to main.
export_to_csv_raises(marks_dict, grades_dict, out_path, write_result) ==
    IF write_result = "ok"
    THEN [raised |-> FALSE, printed |-> "Exported results", path |-> out_path,
          file |-> <<<<"Name", "Marks", "Grade">>>> \o
                   [i \in 1..Len(marks_dict) |->
                       <<marks_dict[i][1], marks_dict[i][2],
                         IF HasKey(grades_dict, marks_dict[i][1])
                         THEN Get(grades_dict, marks_dict[i][1]) ELSE "">>]]
    ELSE [raised |-> TRUE, printed |-> "", path |-> out_path, file |-> <<>>]

\* write_result is what open(out_path, 'w') and the writes do: "ok" or
\* "Exception", which the except clause prints.
export_to_csv(marks_dict, grades_dict, out_path, write_result) ==
    IF write_result = "ok"
    THEN [raised |-> FALSE, printed |-> "Exported results", path |-> out_path,
          file |-> <<<<"Name", "Marks", "Grade">>>> \o
                   [i \in 1..Len(marks_dict) |->
                       <<marks_dict[i][1], marks_dict[i][2],
                         IF HasKey(grades_dict, marks_dict[i][1])
                         THEN Get(grades_dict, marks_dict[i][1]) ELSE "">>]]
    ELSE [raised |-> FALSE, printed |-> "Failed to export CSV", path |-> out_path,
          file |-> <<>>]

create_sample_data ==
    << <<<<"A","l","i","c","e">>, 78 * Scale>>,
       <<<<"B","o","b">>, 92 * Scale>>,
       <<<<"C","h","a","r","l","i","e">>, 65 * Scale>>,
       <<<<"D","e","e","p","a">>, 55 * Scale>>,
       <<<<"E","s","h","a">>, 34 * Scale>>,
       <<<<"F","a","i","z">>, 88 * Scale>> >>

\* threshold=40.0 of run_analysis
PassThreshold == 40 * Scale

---------------------------------------------------------------------------
\* What the user types and what the file system holds

NameInputs ==
    { <<"A","l">>,
      <<" ","B","o"," ">>,
      <<>>,
      <<" ">>,
      <<"d","o","n","e">>,
      <<"D","O","N","E"," ">> }

MarksInputs ==
    { <<"9","0">>,
      <<" ","8","9",".","9","9","9","9","5">>,
      <<"8","0">>,
      <<"7","9",".","9","9","9","9","5">>,
      <<"7","0">>,
      <<"6","9",".","9","9","9","9","5">>,
      <<"6","0",".","0">>,
      <<"5","9",".","9","9","9">>,
      <<"+","4","0">>,
      <<"3","9",".","9","9","9"," ">>,
      <<"-","5">>,
      <<"a","b","c">>,
      <<"4",".","5",".","6">>,
      <<>>,
      <<"D","o","n","e">> }

MenuInputs ==
    { <<"1">>,
      <<" ","2">>,
      <<"3">>,
      <<"4">>,
      <<"Q","u","i","t"," ">>,
      <<"e","x","i","t">>,
      <<"5">> }

ExportInputs ==
    { <<"y">>,
      <<"Y","e","s">>,
      <<"n">>,
      <<"N","O"," ">>,
      <<"x">> }

OutPathInputs ==
    { <<>>,
      <<" ","o",".","c","s","v">> }

FileRows ==
    { <<<<"N","a","m","e">>, <<"M","a","r","k","s">>>>,
      <<<<"A","l">>, <<"7","9",".","9","9","9","9","5">>>>,
      <<<<" ","B","o"," ">>, <<" ","7","0"," ">>>>,
      <<<<"A","l">>, <<"7","0",".","0">>>>,
      <<<<"C","y">>, <<"6","0">>, <<"x">>>>,
      <<<<"B","o">>, <<"6","0">>>>,
      <<<<"C","y">>>>,
      <<>>,
      <<<<" ">>, <<"6","0">>>>,
      <<<<"B","o">>, <<"a","b","c">>>> }

Files == UNION {[1..n -> FileRows] : n \in 0..MaxRows}

OpenResults == {"ok", "FileNotFoundError", "Exception"}
WriteResults == {"ok", "Exception"}

---------------------------------------------------------------------------
\* The session: main, manual_entry, run_analysis

VARIABLES
    pc,         \* where the process waits: "menu" (input of line 238),
                \* "name_prompt" (58), "marks_prompt" (64), "break60" and
                \* "break66" (manual_entry left its loop by that break),
                \* "path_prompt" (243), "return51" (load_from_csv is at
                \* its return), "export_prompt" (211),
                \* "outpath_prompt" (213), "exited" (sys.exit), "crashed"
                \* (an exception reached the top level)
    choice,     \* main: choice
    data,       \* main: data, which is manual_entry's and load_from_csv's
                \* data and run_analysis's marks
    rows,       \* load_from_csv: rows
    printed,    \* what load_from_csv printed
    name,       \* manual_entry: name
    score_str,  \* manual_entry: score_str
    med,        \* run_analysis: med
    max_res,    \* run_analysis: (max_score, max_students)
    min_res,    \* run_analysis: (min_score, min_students)
    grades,     \* run_analysis: grades
    dist,       \* run_analysis: dist
    passed,     \* run_analysis: passed
    failed,     \* run_analysis: failed
    exported    \* what export_to_csv did

results == <<med, max_res, min_res, grades, dist, passed, failed>>
entry == <<name, score_str>>
vars == <<pc, choice, data, rows, printed, name, score_str, med, max_res,
          min_res, grades, dist, passed, failed, exported>>

NoExport == [raised |-> FALSE, printed |-> "", path |-> <<>>, file |-> <<>>]

\* The locals of run_analysis before it has assigned them.
NoResults ==
    /\ med' = None
    /\ max_res' = <<None, <<>>>>
    /\ min_res' = <<None, <<>>>>
    /\ grades' = <<>>
    /\ dist' = <<>>
    /\ passed' = <<>>
    /\ failed' = <<>>

Init ==
    /\ pc = "menu"
    /\ choice = <<>>
    /\ data = <<>>
    /\ rows = <<>>
    /\ printed = ""
    /\ name = <<>>
    /\ score_str = <<>>
    /\ med = None
    /\ max_res = <<None, <<>>>>
    /\ min_res = <<None, <<>>>>
    /\ grades = <<>>
    /\ dist = <<>>
    /\ passed = <<>>
    /\ failed = <<>>
    /\ exported = NoExport

\* run_analysis(marks) up to its first input(): nothing to analyse sends
\* control back to the menu, otherwise the statistics and grades are
\* computed and the export question is asked.
run_analysis(marks) ==
    IF marks = <<>>
    THEN /\ pc' = "menu"
         /\ NoResults
    ELSE /\ pc' = "export_prompt"
         /\ med' = calculate_median(marks)
         /\ max_res' = find_max_score(marks)
         /\ min_res' = find_min_score(marks)
         /\ grades' = assign_grades(marks)
         /\ dist' = grade_distribution(grades')
         /\ passed' = get_pass_fail(marks, PassThreshold)[1]
         /\ failed' = get_pass_fail(marks, PassThreshold)[2]

IsExitChoice(c) == c = <<"4">> \/ lower(c) \in {<<"e","x","i","t">>, <<"q","u","i","t">>}

\* choice == '1': manual_entry starts with an empty OrderedDict.  What the
\* former run left in main's data and in the locals of the functions is
\* not read again, and is cleared here.
ChooseManual(inp) ==
    /\ pc = "menu"
    /\ strip(inp) = <<"1">>
    /\ choice' = strip(inp)
    /\ pc' = "name_prompt"
    /\ data' = <<>>
    /\ rows' = <<>>
    /\ printed' = ""
    /\ name' = <<>>
    /\ score_str' = <<>>
    /\ NoResults
    /\ exported' = NoExport

\* choice == '2': the path is asked for.
ChooseLoad(inp) ==
    /\ pc = "menu"
    /\ strip(inp) = <<"2">>
    /\ choice' = strip(inp)
    /\ pc' = "path_prompt"
    /\ data' = <<>>
    /\ rows' = <<>>
    /\ printed' = ""
    /\ NoResults
    /\ exported' = NoExport
    /\ UNCHANGED entry

\* choice == '3': the sample data is analysed.
ChooseSample(inp) ==
    /\ pc = "menu"
    /\ strip(inp) = <<"3">>
    /\ choice' = strip(inp)
    /\ data' = create_sample_data
    /\ rows' = <<>>
    /\ printed' = ""
    /\ run_analysis(data')
    /\ exported' = NoExport
    /\ UNCHANGED entry

\* choice == '4' or exit / quit: sys.exit(0).
ChooseExit(inp) ==
    /\ pc = "menu"
    /\ IsExitChoice(strip(inp))
    /\ choice' = strip(inp)
    /\ pc' = "exited"
    /\ UNCHANGED <<data, rows, printed, entry, results, exported>>

\* Any other choice: "Invalid choice", and the menu again.
InvalidChoice(inp) ==
    /\ pc = "menu"
    /\ strip(inp) \notin {<<"1">>, <<"2">>, <<"3">>}
    /\ ~IsExitChoice(strip(inp))
    /\ choice' = strip(inp)
    /\ pc' = "menu"
    /\ UNCHANGED <<data, rows, printed, entry, results, exported>>

\* path = input(...) and load_from_csv(path), up to its return.
LoadCsv ==
    /\ pc = "path_prompt"
    /\ \E open_result \in OpenResults, file \in Files :
          LET r == load_from_csv(open_result, file)
          IN  /\ rows' = IF open_result = "ok" THEN file ELSE <<>>
              /\ printed' = r.printed
              /\ data' = r.data
              /\ pc' = IF r.raised THEN "crashed" ELSE "return51"
    /\ UNCHANGED <<choice, entry, results, exported>>

\* return data, and main's run_analysis(data).
LoadReturn ==
    /\ pc = "return51"
    /\ rows' = <<>>
    /\ run_analysis(data)
    /\ UNCHANGED <<choice, data, printed, entry, exported>>

\* manual_entry, the name prompt: "done" in any case leaves the loop, an
\* empty name is refused, any other name goes on to the marks prompt.  The
\* score_str of the former round is not read again, and is cleared.
ReadName(inp) ==
    /\ pc = "name_prompt"
    /\ name' = strip(inp)
    /\ score_str' = <<>>
    /\ pc' = IF lower(name') = <<"d","o","n","e">> THEN "break60"
             ELSE IF name' = <<>> THEN "name_prompt"
             ELSE "marks_prompt"
    /\ UNCHANGED <<choice, data, rows, printed, results, exported>>

\* A marks prompt where input that is no number ends the entry.
ReadMarksBadEnds(inp) ==
    /\ pc = "marks_prompt"
    /\ score_str' = strip(inp)
    /\ IF float(score_str') = None
       THEN pc' = "break66" /\ data' = data
       ELSE /\ pc' = "name_prompt"
            /\ data' = DictSet(data, name, float(score_str')[1])
    /\ UNCHANGED <<choice, rows, printed, name, results, exported>>

\* manual_entry, the marks prompt: "done" leaves the loop, a number is
\* stored under the name, anything else is refused; then the name prompt.
ReadMarks(inp) ==
    /\ pc = "marks_prompt"
    /\ score_str' = strip(inp)
    /\ IF lower(score_str') = <<"d","o","n","e">>
       THEN pc' = "break66" /\ data' = data
       ELSE /\ pc' = "name_prompt"
            /\ data' = IF float(score_str') # None
                       THEN DictSet(data, name, float(score_str')[1])
                       ELSE data
    /\ UNCHANGED <<choice, rows, printed, name, results, exported>>

\* return data, and main's run_analysis(data).
ManualReturn ==
    /\ pc \in {"break60", "break66"}
    /\ name' = <<>>
    /\ score_str' = <<>>
    /\ run_analysis(data)
    /\ UNCHANGED <<choice, data, rows, printed, exported>>

\* The export question: y / yes asks for the file name, n / no ends the
\* run, anything else asks again.
ExportPrompt(inp) ==
    /\ pc = "export_prompt"
    /\ LET c == lower(strip(inp))
       IN  pc' = IF c \in {<<"y">>, <<"y","e","s">>} THEN "outpath_prompt"
                 ELSE IF c \in {<<"n">>, <<"n","o">>} THEN "menu"
                 ELSE "export_prompt"
    /\ UNCHANGED <<choice, data, rows, printed, entry, results, exported>>

\* The file name (results.csv when empty) and export_to_csv; the run ends.
ExportPath(inp, write_result) ==
    /\ pc = "outpath_prompt"
    /\ LET out_path == IF strip(inp) = <<>> THEN ResultsCsv ELSE strip(inp)
           r == export_to_csv(data, grades, out_path, write_result)
       IN  /\ exported' = r
           /\ pc' = IF r.raised THEN "crashed" ELSE "menu"
    /\ UNCHANGED <<choice, data, rows, printed, entry, results>>

Next ==
    \/ \E inp \in MenuInputs : ChooseManual(inp)
    \/ \E inp \in MenuInputs : ChooseLoad(inp)
    \/ \E inp \in MenuInputs : ChooseSample(inp)
    \/ \E inp \in MenuInputs : ChooseExit(inp)
    \/ \E inp \in MenuInputs : InvalidChoice(inp)
    \/ LoadCsv
    \/ LoadReturn
    \/ \E inp \in NameInputs : ReadName(inp)
    \/ \E inp \in MarksInputs : ReadMarks(inp)
    \/ ManualReturn
    \/ \E inp \in ExportInputs : ExportPrompt(inp)
    \/ \E inp \in OutPathInputs, w \in WriteResults : ExportPath(inp, w)

Spec == Init /\ [][Next]_vars

---------------------------------------------------------------------------
\* Properties of the grading and statistics functions, stated over data:
\* every Record Set the session can hold (entered, loaded or the sample).

Grades == {"A", "B", "C", "D", "F"}

\* The positions of name n in the list of names ns.
Positions(ns, n) == {i \in 1..Len(ns) : ns[i] = n}
InList(ns, n) == Positions(ns, n) # {}

\* ns lists names of d, without repeats, in d's iteration order.
InDictOrder(ns, d) ==
    /\ \A i \in 1..Len(ns) : HasKey(d, ns[i])
    /\ \A i, j \in 1..Len(ns) :
          i < j => \E a, b \in 1..Len(d) : a < b /\ d[a][1] = ns[i] /\ d[b][1] = ns[j]

\* The grade of a score by half-open intervals [low, high).
HalfOpenGrade(score) ==
    CASE score >= 90 * Scale -> "A"
      [] 80 * Scale <= score /\ score < 90 * Scale -> "B"
      [] 70 * Scale <= score /\ score < 80 * Scale -> "C"
      [] 60 * Scale <= score /\ score < 70 * Scale -> "D"
      [] score < 60 * Scale -> "F"

\* C1: assign_grades gives every name exactly one grade, the grade of its
\* score by the half-open intervals: A from 90, B in [80, 90), C in
\* [70, 80), D in [60, 70), F below 60.
C1_GradesAreHalfOpen ==
    LET g == assign_grades(data)
    IN  /\ Len(g) = Len(data)
        /\ \A i \in 1..Len(data) :
              g[i] = <<data[i][1], HalfOpenGrade(data[i][2])>>

\* C3: get_pass_fail with threshold 40 puts every name of the Record Set
\* in exactly one of passed and failed, exactly once, and no other name;
\* a name is in passed iff its score >= 40; both lists keep the Record
\* Set's order.
C3_PassFailPartition ==
    LET pf == get_pass_fail(data, PassThreshold)
        p  == pf[1]
        f  == pf[2]
    IN  /\ \A i \in 1..Len(data) :
              /\ Cardinality(Positions(p, data[i][1])) +
                 Cardinality(Positions(f, data[i][1])) = 1
              /\ InList(p, data[i][1]) <=> data[i][2] >= 40 * Scale
        /\ Len(p) + Len(f) = Len(data)
        /\ InDictOrder(p, data)
        /\ InDictOrder(f, data)

\* C3 witness: the analysis ran on a Record Set holding a score of exactly
\* 40, which passed, and a lower score, which failed.
C3_Witness ==
    /\ pc = "export_prompt"
    /\ \E i, j \in 1..Len(data) :
          /\ data[i][2] = 40 * Scale /\ InList(passed, data[i][1])
          /\ data[j][2] < 40 * Scale /\ InList(failed, data[j][1])

\* r is (the extreme score, the names holding it) of d, where Beats(a, b)
\* says that score a is at least as extreme as score b.
IsExtreme(r, d, Beats(_, _)) ==
    IF d = <<>> THEN r = <<None, <<>>>>
    ELSE /\ r[1] # None
         /\ \E i \in 1..Len(d) : d[i][2] = r[1][1]
         /\ \A i \in 1..Len(d) : Beats(r[1][1], d[i][2])
         /\ \A i \in 1..Len(d) :
               Cardinality(Positions(r[2], d[i][1])) =
                   IF d[i][2] = r[1][1] THEN 1 ELSE 0
         /\ InDictOrder(r[2], d)

\* C4: find_max_score / find_min_score return the largest / smallest score
\* with exactly the names whose score equals it, each once, in Record Set
\* order; on the empty Record Set both return (None, []).
C4_ExtremesWithAllTies ==
    /\ IsExtreme(find_max_score(data), data, LAMBDA a, b : a >= b)
    /\ IsExtreme(find_min_score(data), data, LAMBDA a, b : a <= b)

\* C4 witness: the analysis ran on three records of which two share the
\* largest score.
C4_Witness ==
    /\ pc = "export_prompt"
    /\ Len(data) = 3
    /\ Len(max_res[2]) = 2
    /\ Len(min_res[2]) = 1

\* The k-th smallest of the scores xs (k from 1), by counting.
OrderStat(xs, k) ==
    CHOOSE v \in {xs[i] : i \in 1..Len(xs)} :
        /\ Cardinality({i \in 1..Len(xs) : xs[i] < v}) < k
        /\ Cardinality({i \in 1..Len(xs) : xs[i] <= v}) >= k

Reverse(d) == [i \in 1..Len(d) |-> d[Len(d) + 1 - i]]

\* C5: calculate_median is None on the empty Record Set, the middle score
\* in ascending order for an odd count and the mean of the two middle
\* scores for an even count (here in units of 1/(2*Scale)); the order of
\* the records does not change it.
C5_MedianIsMiddle ==
    LET xs == values(data)
        n  == Len(xs)
        m  == calculate_median(data)
    IN  /\ n = 0 => m = None
        /\ n > 0 /\ n % 2 = 1 => m = Some(2 * OrderStat(xs, (n + 1) \div 2))
        /\ n > 0 /\ n % 2 = 0 =>
              m = Some(OrderStat(xs, n \div 2) + OrderStat(xs, n \div 2 + 1))
        /\ calculate_median(Reverse(data)) = m

\* C5 witness: the analysis ran on the six sample records, which are not
\* in ascending order, and found the median 71.5 = (65 + 78) / 2.
C5_Witness ==
    /\ pc = "export_prompt"
    /\ Len(data) = 6
    /\ \E i \in 1..5 : data[i][2] > data[i + 1][2]
    /\ med = Some(143 * Scale)

\* C6: the distribution of the grades of assign_grades, read as
\* run_analysis reads it (dist.get(g, 0)), gives for each of A, B, C, D, F
\* the number of students with that grade, and the five counts add up to
\* the number of students.
C6_DistributionCounts ==
    LET g == assign_grades(data)
        d == grade_distribution(g)
    IN  /\ \A x \in Grades :
              DistGet(d, x) = Cardinality({i \in 1..Len(g) : g[i][2] = x})
        /\ DistGet(d, "A") + DistGet(d, "B") + DistGet(d, "C") +
           DistGet(d, "D") + DistGet(d, "F") = Len(data)

\* C6 witness: the analysis found a grade that no student has and a grade
\* that two students share.
C6_Witness ==
    /\ pc = "export_prompt"
    /\ \E x, y \in Grades : DistGet(dist, x) = 0 /\ DistGet(dist, y) = 2

\* C10: every name get_pass_fail (threshold 40) lists as failed has grade
\* F from assign_grades, and every name with grade A, B, C or D is listed
\* as passed.
C10_GradeAgreesWithPassFail ==
    LET g  == assign_grades(data)
        pf == get_pass_fail(data, PassThreshold)
    IN  \A i \in 1..Len(data) :
           /\ InList(pf[2], data[i][1]) => Get(g, data[i][1]) = "F"
           /\ Get(g, data[i][1]) \in {"A", "B", "C", "D"} => InList(pf[1], data[i][1])

\* C10 witness: the converse fails; the analysis listed as passed a name
\* whose grade is F (a score in [40, 60)), next to a failed name.
C10_Witness ==
    /\ pc = "export_prompt"
    /\ \E i \in 1..Len(data) :
          InList(passed, data[i][1]) /\ Get(grades, data[i][1]) = "F"
    /\ failed # <<>>

---------------------------------------------------------------------------
\* Properties of the two input paths

\* A file row that counts: two columns or more, a name that is not empty
\* once trimmed, a second field that parses as a number.
WellFormedRow(r) ==
    /\ Len(r) >= 2
    /\ strip(r[1]) # <<>>
    /\ float(r[2]) # None

\* The writes a file asks for: (name, score) of its well-formed rows, in
\* file order.
Writes(file) ==
    LET good == SelectSeq(file, WellFormedRow)
    IN  [i \in 1..Len(good) |-> <<strip(good[i][1]), float(good[i][2])[1]>>]

FirstWrite(w, n) ==
    CHOOSE i \in 1..Len(w) : w[i][1] = n /\ \A j \in 1..(i - 1) : w[j][1] # n
LastWrite(w, n) ==
    CHOOSE i \in 1..Len(w) : w[i][1] = n /\ \A j \in (i + 1)..Len(w) : w[j][1] # n

\* d holds exactly the names written by w, each once, each with the score
\* of its last write.
HoldsLastScores(d, w) ==
    /\ \A i \in 1..Len(w) : Cardinality(Positions(keys(d), w[i][1])) = 1
    /\ \A i \in 1..Len(d) :
          /\ InList(keys(w), d[i][1])
          /\ d[i][2] = w[LastWrite(w, d[i][1])][2]

\* d iterates its names in the order of their last / of their first writes.
InLastWriteOrder(d, w) ==
    \A i, j \in 1..Len(d) : i < j => LastWrite(w, d[i][1]) < LastWrite(w, d[j][1])
InFirstWriteOrder(d, w) ==
    \A i, j \in 1..Len(d) : i < j => FirstWrite(w, d[i][1]) < FirstWrite(w, d[j][1])

\* The step of manual_entry that stores an accepted (name, score) pair.
AcceptedEntry ==
    /\ pc = "marks_prompt"
    /\ pc' = "name_prompt"
    /\ float(score_str') # None

\* The names of d other than n, with their scores, in d's order.
Others(d, n) == SelectSeq(d, LAMBDA r : r[1] # n)

\* C2 as claimed: a Record Set built by successive writes holds a name
\* written more than once a single time, with the score of its last write
\* and at the place of its last write: after load_from_csv the names are in
\* the order of their last rows, and after an accepted manual entry the
\* name just written is the last one.
C2_PlaceOfLastWrite ==
    [][ /\ pc = "path_prompt" /\ printed' = "" =>
              LET w == Writes(rows')
              IN  HoldsLastScores(data', w) /\ InLastWriteOrder(data', w)
        /\ AcceptedEntry =>
              /\ Cardinality(Positions(keys(data'), name)) = 1
              /\ data'[Len(data')] = <<name, float(score_str')[1]>>
      ]_vars

\* C2 as amended: ... a single time, with the score of its last write and
\* at the place of its FIRST write: after load_from_csv the names are in
\* the order of their first rows, and an accepted manual entry of a name
\* already held changes its score in place (a new name goes to the end);
\* the other records keep their scores and order.
C2_PlaceOfFirstWrite ==
    [][ /\ pc = "path_prompt" /\ printed' = "" =>
              LET w == Writes(rows')
              IN  HoldsLastScores(data', w) /\ InFirstWriteOrder(data', w)
        /\ AcceptedEntry =>
              /\ Cardinality(Positions(keys(data'), name)) = 1
              /\ Get(data', name) = float(score_str')[1]
              /\ Others(data', name) = Others(data, name)
              /\ keys(data') = IF HasKey(data, name) THEN keys(data)
                               ELSE Append(keys(data), name)
      ]_vars

\* C2 witness: load_from_csv read a file that writes a name, then another
\* name, then the first name again with another score.
C2_Witness ==
    /\ pc = "return51"
    /\ LET w == Writes(rows)
       IN  \E i, j, k \in 1..Len(w) :
              /\ i < j /\ j < k
              /\ w[i][1] = w[k][1] /\ w[i][1] # w[j][1] /\ w[i][2] # w[k][2]
              /\ data = <<w[k], w[j]>>

\* C7: load_from_csv does not raise; of a file it could read it returns
\* the Record Set of exactly the well-formed rows (the first row included
\* iff it is well-formed, so a first row whose second field is no number
\* is left out; a bad row does not stop the rows after it): the names
\* written, each with the score of its last well-formed row, in file order
\* when no name repeats; of a missing or unreadable file it returns the
\* empty Record Set.
C7_LoadsWellFormedRows ==
    /\ pc # "crashed"
    /\ pc = "return51" =>
          /\ printed \in {"File not found", "Error reading CSV"} => data = <<>>
          /\ printed \in {"", "CSV is empty"} =>
                LET w == Writes(rows)
                IN  /\ HoldsLastScores(data, w)
                    /\ (\A i, j \in 1..Len(w) : i # j => w[i][1] # w[j][1])
                       => data = w

\* C7 witness: load_from_csv read a file whose first row is a header and
\* in which a bad later row is followed by a well-formed row, which was
\* loaded.
C7_Witness ==
    /\ pc = "return51"
    /\ Len(rows) >= 3
    /\ Len(rows[1]) >= 2 /\ float(rows[1][2]) = None
    /\ \E i, j \in 2..Len(rows) :
          /\ i < j
          /\ ~WellFormedRow(rows[i])
          /\ WellFormedRow(rows[j])
          /\ HasKey(data, strip(rows[j][1]))

\* The steps of manual_entry's loop.
InEntryLoop(p) == p \in {"name_prompt", "marks_prompt"}
IsDone(str) == lower(str) = <<"d","o","n","e">>

\* C8 as claimed: manual_entry's loop ends only when "done" is entered for
\* the name; an empty name or a marks input that is no number adds and
\* changes no record and is followed by a further prompt; every accepted
\* pair is in the Record Set from then on, so in the one returned.
C8_EndsOnlyOnDoneName ==
    [][ /\ InEntryLoop(pc) /\ ~InEntryLoop(pc') =>
              pc = "name_prompt" /\ IsDone(name')
        /\ pc = "name_prompt" /\ name' = <<>> =>
              data' = data /\ InEntryLoop(pc')
        /\ pc = "marks_prompt" /\ float(score_str') = None =>
              data' = data /\ InEntryLoop(pc')
        /\ AcceptedEntry =>
              \E i \in 1..Len(data') : data'[i] = <<name, float(score_str')[1]>>
        /\ InEntryLoop(pc) \/ pc \in {"break60", "break66"} =>
              \A i \in 1..Len(data) : \E j \in 1..Len(data') : data'[j] = data[i]
      ]_vars

\* C8 as amended: the loop ends only when "done" is entered for the name
\* or for the marks; an empty name, or a marks input that is neither a
\* number nor "done", adds and changes no record and is followed by a
\* further prompt; every accepted pair is in the returned Record Set
\* unless a later accepted pair has the same name: an accepted pair is in
\* the Record Set after its step, and a step removes or changes a record
\* only by accepting a pair of the same name.
C8_EndsOnDoneNameOrMarks ==
    [][ /\ InEntryLoop(pc) /\ ~InEntryLoop(pc') =>
              \/ pc = "name_prompt" /\ IsDone(name')
              \/ pc = "marks_prompt" /\ IsDone(score_str')
        /\ pc = "name_prompt" /\ name' = <<>> =>
              data' = data /\ InEntryLoop(pc')
        /\ pc = "marks_prompt" /\ float(score_str') = None /\ ~IsDone(score_str') =>
              data' = data /\ InEntryLoop(pc')
        /\ AcceptedEntry =>
              \E i \in 1..Len(data') : data'[i] = <<name, float(score_str')[1]>>
        /\ InEntryLoop(pc) \/ pc \in {"break60", "break66"} =>
              \A i \in 1..Len(data) :
                  \/ \E j \in 1..Len(data') : data'[j] = data[i]
                  \/ AcceptedEntry /\ data[i][1] = name
      ]_vars

\* C8 witness: "done" at the marks prompt, after a name, ended an entry
\* session that had accepted two records.
C8_Witness ==
    /\ pc = "break66"
    /\ Len(data) = 2
    /\ IsDone(score_str)
    /\ name # <<>>

\* C9: the session ends only by the exit choice and never by an error; an
\* invalid choice leaves the session at the menu; a run whose Record Set
\* is empty (nothing entered, no file, no well-formed row) goes back to
\* the menu; the export question leads to the menu, directly or by the
\* file name; export_to_csv, failed or not, goes back to the menu and
\* leaves the Record Set and the grades as they were.
C9_OnlyExitEndsTheSession ==
    [][ /\ pc' \in {"exited", "crashed"} =>
              pc' = "exited" /\ pc = "menu" /\ IsExitChoice(choice')
        /\ pc = "menu" /\ ~IsExitChoice(choice') =>
              pc' \in {"menu", "name_prompt", "path_prompt", "export_prompt"}
        /\ pc = "menu" /\ choice' \notin {<<"1">>, <<"2">>, <<"3">>} /\ ~IsExitChoice(choice') =>
              pc' = "menu"
        /\ pc \in {"break60", "break66", "return51"} =>
              pc' = IF data = <<>> THEN "menu" ELSE "export_prompt"
        /\ pc = "export_prompt" =>
              pc' \in {"export_prompt", "outpath_prompt", "menu"}
        /\ pc = "outpath_prompt" =>
              /\ pc' = "menu"
              /\ data' = data
              /\ grades' = grades
              /\ results' = results
      ]_vars

\* C9 witness: the session is back at the menu after an export that
\* failed, with the Record Set and its grades still held.
C9_Witness ==
    /\ pc = "menu"
    /\ exported.printed = "Failed to export CSV"
    /\ data # <<>>
    /\ grades = assign_grades(data)

====
